---- MODULE Spec2Model ----
(***************************************************************************)
(* The in-memory rendezvous sync provider of sync_inmem_provider.go: the   *)
(* topic registry (PubSub.topics under PubSub.mu), the per-topic           *)
(* subscriber map and last announcement (under PubSubSubscribers.mu), the  *)
(* Register broadcast and the per-stream session loop handleStream.        *)
(*                                                                         *)
(* getOrCreateTopic is one step: its critical section under ps.mu makes no *)
(* blocking call and touches only ps.topics, which nothing touches outside *)
(* ps.mu.  A session's acquisition of a topic guard is a step of its own,   *)
(* so that a state shows which session holds which topic guard; its        *)
(* critical section and Unlock are the next step of the same session.      *)
(* Register's critical section (lines 91-94) is one step: it makes no      *)
(* blocking call and touches only what the guard protects.  A WriteMsg is  *)
(* two steps, its start and its return, so that a state shows the writes   *)
(* in progress.                                                            *)
(*                                                                         *)
(* Register keeps `toNotify := subscribers.subscribers` (line 93): in Go   *)
(* that is a second reference to the same map, not a copy, and the range   *)
(* of line 96 walks the live map with no guard held.  The range is         *)
(* modelled as Go defines it: every key position is passed once, in an     *)
(* order the runtime picks; an entry present when its position is passed   *)
(* is produced; an entry inserted or deleted meanwhile is produced or not, *)
(* depending on whether its position has been passed.  A range step that   *)
(* overlaps a session's insert or delete on the same map (the session      *)
(* holds the topic guard and is about to write the map) is a data race,    *)
(* which the Go runtime may detect and end the whole process with          *)
(* "fatal error: concurrent map iteration and map write": action Crash.    *)
(***************************************************************************)
EXTENDS Integers, Sequences, FiniteSets, TLC

\* ------------------------------------------------------------------ bounds
\* Register calls made in one run.
MaxCalls == 2
\* Topic instances that may ever be allocated for one namespace.
MaxGen == 2
\* Streams whose outbound side degrades (fails or blocks) in one run.
MaxBad == 1
\* Messages of a type other than discover/subscribe read in one run.
MaxOther == 1

\* ------------------------------------------------------------------ universe
Peers == {1, 2}
\* Inbound streams; sessions 1 and 3 come from the same remote peer.
Sessions == {1, 2, 3}
Namespaces == {"a", "b"}
Calls == {10 + i : i \in 1..MaxCalls}
\* Topic instances: the g-th instance allocated for a namespace
NsIndex(ns) == IF ns = "a" THEN 0 ELSE 1
Tid(ns, g) == NsIndex(ns) * MaxGen + g
Tids == 1..(2 * MaxGen)
NoProc == 0
NoTopic == 0

\* the identities Register and Unregister are called with
Identities == {1}

\* The workloads of a run: what the remote peers and the local application do.
\*   "sessions": three streams (two of them from peer 1), one Register call;
\*               the first stream of peer 1 asks for either namespace;
\*               Unregister is called
\*   "calls":    two streams from two peers, MaxCalls Register calls, all on
\*               namespace "a"; the stream of peer 2 may degrade
\*   "other":    as "calls", with no stream degrading; the remote peers also
\*               send messages of a type other than discover/subscribe
Workloads == {"sessions", "calls", "other"}

\* the streams that are opened
ActiveSessions(w) == IF w = "sessions" THEN Sessions ELSE {1, 2}

\* the Register calls that are made
ActiveCalls(w) == IF w = "sessions" THEN {11} ELSE Calls

\* the namespaces Register is called on
CallNamespaces(w) == IF w = "sessions" THEN Namespaces ELSE {"a"}

\* the streams whose outbound side may degrade
Degradable(w) == IF w = "calls" THEN {2} ELSE {}

\* whether the remote peers send messages of another type
SendsOther(w) == w = "other"

\* whether the local application calls Unregister
Unregisters(w) == w = "sessions"

\* the namespaces the remote end of session s asks for
Asked(w, s) == IF w = "sessions" /\ s = 1 THEN Namespaces ELSE {"a"}

\* s.Conn().RemotePeer()
RemotePeer(s) == IF s = 2 THEN 2 ELSE 1

\* a nil *pb.RegistrationRecord
NoRec == [id |-> 0, pid |-> 0, ns |-> "none"]

VARIABLES
    topics,    \* ps.topics: namespace -> topic instance (NoTopic: no key)
    tsubs,     \* topic.subscribers: set of [peer, w] entries, one map per instance
    tlast,     \* topic.lastAnnouncement
    tmu,       \* holder of topic.mu
    cpc,       \* Register call: position
    cpid,      \* Register call: pid argument
    cns,       \* Register call: ns argument
    ctopic,    \* Register call: local `subscribers` (the topic handle)
    cpassed,   \* Register call: key positions the range has passed
    ctarget,   \* Register call: the writer WriteMsg is running on
    spc,       \* session: position
    sreq,      \* session: the message read
    stopic,    \* session: local `topic`
    joined,    \* session: subscribedTopics
    stodo,     \* session: namespaces the cleanup range has yet to produce
    slast,     \* session: local `lastAnnouncement`
    wstate,    \* per stream: "ok", "failing" (WriteMsg errs), "dead" (WriteMsg blocks)
    crashed,   \* the process was ended by the runtime
    wlog,      \* history: per writer, the WriteMsg calls started on it
    snap,      \* history: per call, the subscriber entries when it stored
    joinAnn,   \* history: per session and namespace, lastAnnouncement at join
    pred,      \* history: per call, the calls that had returned when it began
    stuckAt,   \* history: per call, the calls blocked on a dead stream when it began
    cleaned,   \* history: per session, the namespaces its cleanup deleted from
    asked,     \* history: per session, the namespaces it handled a subscribe for
    wl,        \* the workload of this run
    ignored,   \* messages of another type read so far
    unregd     \* history: the id of the first record Unregistered while it was the
               \* last announcement; negated once a confirmation of it started after that

regVars == <<topics>>
topicVars == <<tsubs, tlast, tmu>>
callVars == <<cpc, cpid, cns, ctopic, cpassed, ctarget>>
sessVars == <<spc, sreq, stopic, joined, stodo, slast>>
envVars == <<wstate, crashed, wl, ignored>>
histVars == <<wlog, snap, joinAnn, pred, stuckAt, cleaned, asked, unregd>>
vars == <<regVars, topicVars, callVars, sessVars, envVars, histVars>>

\* ------------------------------------------------------------------ maps
\* keys of a subscriber map
Keys(m) == {e.peer : e \in m}

\* _, ok := topic.subscribers[p]
IsMember(m, p) == p \in Keys(m)

\* topic.subscribers[p] = w
MapPut(m, p, w) == {e \in m : e.peer # p} \cup {[peer |-> p, w |-> w]}

\* a faulty variant: the whole map is emptied
MapDelete_all(m, p) == {}

\* a faulty variant: nothing is deleted
MapDelete_keep(m, p) == m

\* delete(topic.subscribers, p)
MapDelete(m, p) == {e \in m : e.peer # p}

\* the record Register builds (dataToSend)
Rec(c) == [id |-> c, pid |-> cpid[c], ns |-> cns[c]]

\* ------------------------------------------------------------------ Init
Init ==
    /\ topics = [n \in Namespaces |-> NoTopic]
    /\ tsubs = [t \in Tids |-> {}]
    /\ tlast = [t \in Tids |-> NoRec]
    /\ tmu = [t \in Tids |-> NoProc]
    /\ cpc = [c \in Calls |-> "idle"]
    /\ cpid = [c \in Calls |-> 0]
    /\ cns = [c \in Calls |-> "none"]
    /\ ctopic = [c \in Calls |-> NoTopic]
    /\ cpassed = [c \in Calls |-> {}]
    /\ ctarget = [c \in Calls |-> NoProc]
    /\ spc = [s \in Sessions |-> "Reading"]
    /\ sreq = [s \in Sessions |-> "none"]
    /\ stopic = [s \in Sessions |-> NoTopic]
    /\ joined = [s \in Sessions |-> {}]
    /\ stodo = [s \in Sessions |-> {}]
    /\ slast = [s \in Sessions |-> NoRec]
    /\ wstate = [s \in Sessions |-> "ok"]
    /\ crashed = FALSE
    /\ wl \in Workloads
    /\ ignored = 0
    /\ wlog = [s \in Sessions |-> <<>>]
    /\ snap = [c \in Calls |-> {}]
    /\ joinAnn = [s \in Sessions |-> [n \in Namespaces |-> -1]]
    /\ pred = [c \in Calls |-> {}]
    /\ stuckAt = [c \in Calls |-> {}]
    /\ cleaned = [s \in Sessions |-> {}]
    /\ asked = [s \in Sessions |-> {}]
    /\ unregd = 0

\* ------------------------------------------------------------------ getOrCreateTopic
\* a faulty variant: the lookup never finds the namespace
TopicFound_never(ns) == FALSE

\* subscribers, ok := ps.topics[ns]: the ok
TopicFound(ns) == topics[ns] # NoTopic

\* &PubSubSubscribers{...}: the instance a create for ns allocates
NewTopic(ns) == IF topics[ns] = NoTopic THEN Tid(ns, 1) ELSE topics[ns] + 1

\* ps.topics after the lookup-or-create of getOrCreateTopic(ns)
TopicsAfterGet(ns) ==
    IF TopicFound(ns) THEN topics
    ELSE [topics EXCEPT ![ns] = NewTopic(ns)]

\* getOrCreateTopic(ns), from ps.mu.Lock() to the deferred Unlock; the caller
\* receives topics'[ns]
GetOrCreateTopic(ns) ==
    /\ TopicsAfterGet(ns)[ns] <= Tid(ns, MaxGen)
    /\ topics' = TopicsAfterGet(ns)

\* ------------------------------------------------------------------ streams
\* a WriteMsg is running on writer w
WriteInProgress(w) ==
    \/ spc[w] = "write"
    \/ \E c \in Calls : cpc[c] = "write" /\ ctarget[c] = w

\* a WriteMsg on writer w can return: the stream drains, fails, or was reset
CanReturn(w) == wstate[w] # "dead" \/ spc[w] = "Terminated"

\* the WriteMsg on writer w that returns, returns nil
WriteOk(w) == wstate[w] = "ok" /\ spc[w] # "Terminated"

\* call c is in a WriteMsg that cannot return
Blocked(c) == cpc[c] = "write" /\ ~CanReturn(ctarget[c])

\* an entry of the write history: record r, written by a call's broadcast
\* (by: the call) or as a session's confirmation (by: the session)
Started(r, by) == <<r, by>>

\* ------------------------------------------------------------------ Register
\* a faulty variant: the Unlock of line 94 is missing
StoreUnlock_held(c, t) == [tmu EXCEPT ![t] = c]

\* the guard of subscribers.mu after Register's critical section (line 94)
StoreUnlock(c, t) == [tmu EXCEPT ![t] = NoProc]

\* Register(pid, ns, ...) up to the Unlock of line 94:
\* subscribers := ps.getOrCreateTopic(ns); dataToSend is built; Lock;
\* lastAnnouncement = dataToSend; toNotify := subscribers.subscribers; Unlock
RegisterCall(c, pid, ns) ==
    /\ ~crashed
    /\ cpc[c] = "idle"
    /\ c \in ActiveCalls(wl)
    /\ ns \in CallNamespaces(wl)
    /\ \A d \in Calls : d < c => cpc[d] # "idle"
    /\ GetOrCreateTopic(ns)
    /\ LET t == topics'[ns] IN
       /\ tmu[t] = NoProc
       /\ ctopic' = [ctopic EXCEPT ![c] = t]
       /\ tlast' = [tlast EXCEPT ![t] = [id |-> c, pid |-> pid, ns |-> ns]]
       /\ tmu' = StoreUnlock(c, t)
       /\ snap' = [snap EXCEPT ![c] = tsubs[t]]
    /\ cpid' = [cpid EXCEPT ![c] = pid]
    /\ cns' = [cns EXCEPT ![c] = ns]
    /\ cpassed' = [cpassed EXCEPT ![c] = {}]
    /\ cpc' = [cpc EXCEPT ![c] = "range"]
    /\ pred' = [pred EXCEPT ![c] = {d \in Calls : cpc[d] = "done"}]
    /\ stuckAt' = [stuckAt EXCEPT ![c] = {d \in Calls : Blocked(d)}]
    /\ UNCHANGED <<tsubs, ctarget, sessVars, envVars, wlog, joinAnn, cleaned, asked,
                   unregd>>

\* the map the range of line 96 walks: toNotify, which is the topic's own map
ToNotify(c) == tsubs[ctopic[c]]

\* the key positions the range has yet to pass
RangeLeft(c) == Peers \ cpassed[c]

\* the range passes the position of key p: an entry there is produced and
\* stream.WriteMsg(dataToSend) starts on its writer
RangeNext(c, p) ==
    /\ ~crashed
    /\ cpc[c] = "range"
    /\ p \in RangeLeft(c)
    /\ cpassed' = [cpassed EXCEPT ![c] = @ \cup {p}]
    /\ IF IsMember(ToNotify(c), p)
       THEN LET w == (CHOOSE e \in ToNotify(c) : e.peer = p).w IN
            /\ ctarget' = [ctarget EXCEPT ![c] = w]
            /\ cpc' = [cpc EXCEPT ![c] = "write"]
            /\ wlog' = [wlog EXCEPT ![w] = Append(@, Started(c, c))]
       ELSE UNCHANGED <<ctarget, cpc, wlog>>
    /\ UNCHANGED <<regVars, topicVars, cpid, cns, ctopic, sessVars, envVars,
                   snap, joinAnn, pred, stuckAt, cleaned, asked, unregd>>

\* a faulty variant: the failing subscriber is dropped from the map
AfterNotifyError_evict(c) ==
    [tsubs EXCEPT ![ctopic[c]] = {e \in @ : e.w # ctarget[c]}]

\* the subscriber maps after a WriteMsg of call c's broadcast returned an
\* error: the error is logged, nothing else
AfterNotifyError(c) == tsubs

\* a faulty variant: the loop is left after the first write
AfterNotify_stop(c) == "done"

\* where call c goes after a WriteMsg returned: the next iteration
AfterNotify(c) == "range"

\* stream.WriteMsg(dataToSend) returns
RegisterWriteEnd(c) ==
    /\ ~crashed
    /\ cpc[c] = "write"
    /\ CanReturn(ctarget[c])
    /\ tsubs' = IF WriteOk(ctarget[c]) THEN tsubs ELSE AfterNotifyError(c)
    /\ ctarget' = [ctarget EXCEPT ![c] = NoProc]
    /\ cpc' = [cpc EXCEPT ![c] = AfterNotify(c)]
    /\ UNCHANGED <<regVars, tlast, tmu, cpid, cns, ctopic, cpassed, sessVars, envVars,
                   histVars>>

\* the range is over; Register returns
RegisterReturn(c) ==
    /\ ~crashed
    /\ cpc[c] = "range"
    /\ RangeLeft(c) = {}
    /\ cpc' = [cpc EXCEPT ![c] = "done"]
    /\ UNCHANGED <<regVars, topicVars, cpid, cns, ctopic, cpassed, ctarget, sessVars,
                   envVars, histVars>>

\* ------------------------------------------------------------------ Unregister
\* a faulty variant: the last announcement of the identity is revoked
UnregisterEffect_revoke(p, ns) ==
    /\ tlast' = [t \in Tids |-> IF t = topics[ns] /\ tlast[t].pid = p THEN NoRec
                                ELSE tlast[t]]
    /\ UNCHANGED <<regVars, tsubs, tmu>>

\* Unregister(p, ns): the body is empty
UnregisterEffect(p, ns) == UNCHANGED <<regVars, topicVars>>

Unregister(p, ns) ==
    /\ ~crashed
    /\ Unregisters(wl)
    /\ UnregisterEffect(p, ns)
    /\ unregd' = IF unregd = 0 /\ topics[ns] # NoTopic /\ tlast[topics[ns]].pid = p
                 THEN tlast[topics[ns]].id
                 ELSE unregd
    /\ UNCHANGED <<callVars, sessVars, envVars, wlog, snap, joinAnn, pred, stuckAt,
                   cleaned, asked>>

\* ------------------------------------------------------------------ handleStream
\* the loop of handleStream is back at r.ReadMsg: the locals of the loop body
\* are gone
BackToReading(s) ==
    /\ sreq' = [sreq EXCEPT ![s] = "none"]
    /\ stopic' = [stopic EXCEPT ![s] = NoTopic]
    /\ slast' = [slast EXCEPT ![s] = NoRec]

\* a faulty variant: the message is taken for a subscribe and joined
OtherJoined_add(s) == [joined EXCEPT ![s] = @ \cup {"a"}]

\* subscribedTopics after a message of another type: line 134 leaves the
\* loop body
OtherJoined(s) == joined

\* r.ReadMsg(&req) returns a message that is no discover/subscribe: continue
ReadOther(s) ==
    /\ ~crashed
    /\ spc[s] = "Reading"
    /\ s \in ActiveSessions(wl)
    /\ SendsOther(wl)
    /\ ignored < MaxOther
    /\ ignored' = ignored + 1
    /\ joined' = OtherJoined(s)
    /\ UNCHANGED <<regVars, topicVars, callVars, spc, sreq, stopic, stodo, slast,
                   wstate, crashed, wl, histVars>>

\* r.ReadMsg(&req) returns a discover/subscribe for ns;
\* topic := ps.getOrCreateTopic(ns); topic.mu.Lock()
ReadSubscribe(s, ns) ==
    /\ ~crashed
    /\ spc[s] = "Reading"
    /\ s \in ActiveSessions(wl)
    /\ ns \in Asked(wl, s)
    /\ GetOrCreateTopic(ns)
    /\ tmu[topics'[ns]] = NoProc
    /\ tmu' = [tmu EXCEPT ![topics'[ns]] = s]
    /\ stopic' = [stopic EXCEPT ![s] = topics'[ns]]
    /\ sreq' = [sreq EXCEPT ![s] = ns]
    /\ spc' = [spc EXCEPT ![s] = "sub"]
    /\ UNCHANGED <<tsubs, tlast, callVars, joined, stodo, slast, envVars, histVars>>

\* a faulty variant: the membership test never finds the peer
AlreadyMember_never(s) == FALSE

\* _, ok := topic.subscribers[s.Conn().RemotePeer()]: the ok of line 139
AlreadyMember(s) == IsMember(tsubs[stopic[s]], RemotePeer(s))

\* the peer is already a member: Unlock, continue
SubscribeDuplicate(s) ==
    /\ ~crashed
    /\ spc[s] = "sub"
    /\ tmu[stopic[s]] = s
    /\ AlreadyMember(s)
    /\ tmu' = [tmu EXCEPT ![stopic[s]] = NoProc]
    /\ spc' = [spc EXCEPT ![s] = "Reading"]
    /\ BackToReading(s)
    /\ asked' = [asked EXCEPT ![s] = @ \cup {sreq[s]}]
    /\ UNCHANGED <<regVars, tsubs, tlast, callVars, joined, stodo, envVars,
                   wlog, snap, joinAnn, pred, stuckAt, cleaned, unregd>>

\* a faulty variant: the last announcement is not read
ReadLastAnnouncement_nil(s) == NoRec

\* lastAnnouncement := topic.lastAnnouncement (line 146)
ReadLastAnnouncement(s) == tlast[stopic[s]]

\* a faulty variant: the Unlock comes after the confirmation's WriteMsg
AddUnlock_afterWrite(s) == tmu

\* the topic guards after topic.mu.Unlock() of line 147
AddUnlock(s) == [tmu EXCEPT ![stopic[s]] = NoProc]

\* the entry is added, the namespace joined, the last announcement read, Unlock;
\* if there is a last announcement, w.WriteMsg(lastAnnouncement) starts
SubscribeAdd(s) ==
    /\ ~crashed
    /\ spc[s] = "sub"
    /\ tmu[stopic[s]] = s
    /\ ~AlreadyMember(s)
    /\ tsubs' = [tsubs EXCEPT ![stopic[s]] = MapPut(@, RemotePeer(s), s)]
    /\ joined' = [joined EXCEPT ![s] = @ \cup {sreq[s]}]
    /\ joinAnn' = [joinAnn EXCEPT ![s][sreq[s]] = tlast[stopic[s]].id]
    /\ asked' = [asked EXCEPT ![s] = @ \cup {sreq[s]}]
    /\ unregd' = IF unregd > 0 /\ ReadLastAnnouncement(s).id = unregd THEN -unregd
                 ELSE unregd
    /\ tmu' = AddUnlock(s)
    /\ IF ReadLastAnnouncement(s) # NoRec
       THEN /\ spc' = [spc EXCEPT ![s] = "write"]
            /\ slast' = [slast EXCEPT ![s] = ReadLastAnnouncement(s)]
            /\ wlog' = [wlog EXCEPT ![s] = Append(@, Started(ReadLastAnnouncement(s).id, s))]
            /\ UNCHANGED <<sreq, stopic>>
       ELSE /\ spc' = [spc EXCEPT ![s] = "Reading"]
            /\ BackToReading(s)
            /\ wlog' = wlog
    /\ UNCHANGED <<regVars, tlast, callVars, stodo, envVars, snap, pred,
                   stuckAt, cleaned>>

\* the subscriber maps after the confirmation's WriteMsg returned an error:
\* the error is logged, nothing else
AfterConfirmError(s) == tsubs

\* where the session goes after the confirmation's WriteMsg returned: the
\* loop reads again
AfterConfirm(s) == "Reading"

\* w.WriteMsg(lastAnnouncement) returns
ConfirmWriteEnd(s) ==
    /\ ~crashed
    /\ spc[s] = "write"
    /\ CanReturn(s)
    /\ tsubs' = IF WriteOk(s) THEN tsubs ELSE AfterConfirmError(s)
    /\ spc' = [spc EXCEPT ![s] = AfterConfirm(s)]
    /\ BackToReading(s)
    /\ UNCHANGED <<regVars, tlast, tmu, callVars, joined, stodo, envVars, histVars>>

\* a faulty variant: the cleanup ranges over every namespace
CleanupSet_all(s) == Namespaces

\* the namespaces the cleanup ranges over: subscribedTopics
CleanupSet(s) == joined[s]

\* r.ReadMsg(&req) returns an error: the cleanup range begins
ReadError(s) ==
    /\ ~crashed
    /\ spc[s] = "Reading"
    /\ s \in ActiveSessions(wl)
    /\ stodo' = [stodo EXCEPT ![s] = CleanupSet(s)]
    /\ spc' = [spc EXCEPT ![s] = "cleanup"]
    /\ UNCHANGED <<regVars, topicVars, callVars, sreq, stopic, joined, slast,
                   envVars, histVars>>

\* the range produces ns: topic := ps.getOrCreateTopic(ns); topic.mu.Lock()
CleanupNext(s, ns) ==
    /\ ~crashed
    /\ spc[s] = "cleanup"
    /\ ns \in stodo[s]
    /\ GetOrCreateTopic(ns)
    /\ tmu[topics'[ns]] = NoProc
    /\ tmu' = [tmu EXCEPT ![topics'[ns]] = s]
    /\ stopic' = [stopic EXCEPT ![s] = topics'[ns]]
    /\ sreq' = [sreq EXCEPT ![s] = ns]
    /\ stodo' = [stodo EXCEPT ![s] = @ \ {ns}]
    /\ spc' = [spc EXCEPT ![s] = "c_del"]
    /\ UNCHANGED <<tsubs, tlast, callVars, joined, slast, envVars, histVars>>

\* a faulty variant: the cleanup clears the last announcement of the topic
LastAfterCleanup_clear(s) == [tlast EXCEPT ![stopic[s]] = NoRec]

\* the last announcements after the cleanup's critical section: not touched
LastAfterCleanup(s) == tlast

\* delete(topic.subscribers, s.Conn().RemotePeer()); Unlock
CleanupDelete(s) ==
    /\ ~crashed
    /\ spc[s] = "c_del"
    /\ tmu[stopic[s]] = s
    /\ tsubs' = [tsubs EXCEPT ![stopic[s]] = MapDelete(@, RemotePeer(s))]
    /\ tlast' = LastAfterCleanup(s)
    /\ tmu' = [tmu EXCEPT ![stopic[s]] = NoProc]
    /\ spc' = [spc EXCEPT ![s] = "cleanup"]
    /\ BackToReading(s)
    /\ cleaned' = [cleaned EXCEPT ![s] = @ \cup {sreq[s]}]
    /\ UNCHANGED <<regVars, callVars, joined, stodo, envVars,
                   wlog, snap, joinAnn, pred, stuckAt, asked, unregd>>

\* the cleanup range is over: return, and the deferred s.Reset()
Terminate(s) ==
    /\ ~crashed
    /\ spc[s] = "cleanup"
    /\ stodo[s] = {}
    /\ spc' = [spc EXCEPT ![s] = "Terminated"]
    /\ UNCHANGED <<regVars, topicVars, callVars, sreq, stopic, joined, stodo, slast,
                   envVars, histVars>>

\* ------------------------------------------------------------------ environment
\* how the outbound side of a stream can degrade
BadModes == {"failing", "dead"}

\* while a WriteMsg runs on it, the remote end of session s breaks ("failing":
\* this and later writes return an error) or stops draining ("dead": this and
\* later writes block)
Degrade(s, m) ==
    /\ ~crashed
    /\ s \in Degradable(wl)
    /\ wstate[s] = "ok"
    /\ m \in BadModes
    /\ Cardinality({x \in Sessions : wstate[x] # "ok"}) < MaxBad
    /\ WriteInProgress(s)
    /\ wstate' = [wstate EXCEPT ![s] = m]
    /\ UNCHANGED <<regVars, topicVars, callVars, sessVars, crashed, wl, ignored,
                   histVars>>

\* session s holds topic t's guard and is about to write t's map
MapWritePending(s, t) ==
    /\ tmu[t] = s
    /\ \/ spc[s] = "c_del"
       \/ spc[s] = "sub" /\ ~AlreadyMember(s)

\* a range step of call c (no guard held) overlaps a map write of a session
Racing(c) ==
    /\ cpc[c] = "range"
    /\ RangeLeft(c) # {}
    /\ \E s \in Sessions : MapWritePending(s, ctopic[c])

\* the runtime detects the race: fatal error, the process ends
Crash ==
    /\ ~crashed
    /\ \E c \in Calls : Racing(c)
    /\ crashed' = TRUE
    /\ UNCHANGED <<regVars, topicVars, callVars, sessVars, wstate, wl, ignored,
                   histVars>>

\* ------------------------------------------------------------------ specification

Next ==
    \/ \E c \in Calls, pid \in Identities, ns \in Namespaces : RegisterCall(c, pid, ns)
    \/ \E c \in Calls, p \in Peers : RangeNext(c, p)
    \/ \E c \in Calls : RegisterWriteEnd(c)
    \/ \E c \in Calls : RegisterReturn(c)
    \/ \E p \in Identities, ns \in Namespaces : Unregister(p, ns)
    \/ \E s \in Sessions : ReadOther(s)
    \/ \E s \in Sessions, ns \in Namespaces : ReadSubscribe(s, ns)
    \/ \E s \in Sessions : SubscribeDuplicate(s)
    \/ \E s \in Sessions : SubscribeAdd(s)
    \/ \E s \in Sessions : ConfirmWriteEnd(s)
    \/ \E s \in Sessions : ReadError(s)
    \/ \E s \in Sessions, ns \in Namespaces : CleanupNext(s, ns)
    \/ \E s \in Sessions : CleanupDelete(s)
    \/ \E s \in Sessions : Terminate(s)
    \/ \E s \in Sessions, m \in BadModes : Degrade(s, m)
    \/ Crash

Spec == Init /\ [][Next]_vars

\* ------------------------------------------------------------------ observations
\* the writes started on writer w
LogSet(w) == {wlog[w][i] : i \in DOMAIN wlog[w]}

\* how often write x was started on writer w
Count(w, x) == Cardinality({i \in DOMAIN wlog[w] : wlog[w][i] = x})

\* the writers call c's broadcast started a write on
Sent(c) == {w \in Sessions : Started(c, c) \in LogSet(w)}

\* the writers in the subscriber set when call c stored its record
SnapWriters(c) == {e.w : e \in snap[c]}

\* the entry session s adds
Entry(s) == [peer |-> RemotePeer(s), w |-> s]

\* the subscriber set of namespace n ({} while n has no topic)
Subs(n) == IF topics[n] = NoTopic THEN {} ELSE tsubs[topics[n]]

\* the registry state: topics, subscriber sets, last announcements
registry == <<topics, tsubs, tlast>>

\* ------------------------------------------------------------------ C1
\* C1: the writers a Register broadcast starts a write on are exactly the
\* writers that were in the namespace's subscriber set when the call stored
\* its record: never a writer that joined later, and all of them once the
\* call has returned.
C1_BroadcastOverSnapshot ==
    \A c \in Calls :
        /\ Sent(c) \subseteq SnapWriters(c)
        /\ cpc[c] = "done" => Sent(c) = SnapWriters(c)

\* ------------------------------------------------------------------ C2
\* a WriteMsg of call c's broadcast returns an error in this step
BroadcastWriteFails(c) ==
    /\ cpc[c] = "write"
    /\ cpc'[c] # "write"
    /\ ~WriteOk(ctarget[c])

\* the confirmation's WriteMsg of session s returns an error in this step
ConfirmWriteFails(s) ==
    /\ spc[s] = "write"
    /\ spc'[s] # "write"
    /\ ~WriteOk(s)

\* session s's cleanup deletes in this step
Deletes(s) == spc[s] = "c_del" /\ spc'[s] # "c_del"

\* C2: a step in which a broadcast write or a confirmation write fails
\* leaves the registry as it is, the call goes on with its range where it
\* was (the positions passed are kept, the others are still to come) and the
\* session goes back to Reading; and an entry leaves a subscriber set only
\* in a delete step of the cleanup of the session that owns it.
C2_WriteFailureChangesNothing ==
    [][ /\ \A c \in Calls : BroadcastWriteFails(c) =>
              /\ registry' = registry
              /\ cpc'[c] = "range"
              /\ cpassed'[c] = cpassed[c]
        /\ \A s \in Sessions : ConfirmWriteFails(s) =>
              /\ registry' = registry
              /\ spc'[s] = "Reading"
        /\ \A t \in Tids : \A e \in tsubs[t] \ tsubs'[t] : Deletes(e.w)
      ]_vars

\* C2 witness: the stream of peer 2 broke during the first call's write on it
\* (the only write ever started on it), that call went on to write to peer 1
\* and returned, peer 2 is still subscribed and its session is Reading, and
\* a second broadcast on the namespace is under way.
C2_Witness ==
    /\ wstate[2] = "failing"
    /\ wlog[2] = <<Started(11, 11)>>
    /\ cpc[11] = "done"
    /\ Started(11, 11) \in LogSet(1)
    /\ Entry(2) \in Subs("a")
    /\ spc[2] = "Reading"
    /\ cpc[12] = "range"
    /\ 11 \in pred[12]

\* ------------------------------------------------------------------ C3
\* C3: a terminated session has deleted from exactly the namespaces it joined,
\* and none of its entries is left; each delete step of its cleanup is on a
\* namespace it joined, leaves its peer out of that namespace's subscriber
\* set and leaves every other subscriber set as it is.
C3_CleanupExact ==
    /\ [](\A s \in Sessions : spc[s] = "Terminated" =>
              /\ cleaned[s] = joined[s]
              /\ \A t \in Tids : Entry(s) \notin tsubs[t])
    /\ [][\A s \in Sessions : Deletes(s) =>
              /\ sreq[s] \in joined[s]
              /\ stopic[s] = topics[sreq[s]]
              /\ ~IsMember(tsubs'[stopic[s]], RemotePeer(s))
              /\ \A t \in Tids \ {stopic[s]} : tsubs'[t] = tsubs[t]
              /\ \A e \in tsubs[stopic[s]] \ tsubs'[stopic[s]] : e = Entry(s)
         ]_vars

\* C3 witness: session 3 joined "a" only and is terminated while the other
\* session of its peer is still subscribed to "b", which session 3 never
\* joined, and a Register call ran meanwhile.
C3_Witness ==
    /\ spc[3] = "Terminated"
    /\ joined[3] = {"a"}
    /\ Entry(1) \in Subs("b")
    /\ Entry(3) \notin Subs("a")
    /\ cpc[11] # "idle"

\* ------------------------------------------------------------------ C4
\* session s finds its peer already a member in this step
FindsMember(s) ==
    /\ spc[s] = "sub"
    /\ spc'[s] # "sub"
    /\ IsMember(tsubs[stopic[s]], RemotePeer(s))

\* C4: no subscriber set holds two entries of one peer; and a subscribe
\* request of a peer that is already a member changes no subscriber set,
\* does not join the namespace and starts no write.
C4_OneEntryPerPeer ==
    /\ [](\A t \in Tids : \A e1, e2 \in tsubs[t] : e1.peer = e2.peer => e1 = e2)
    /\ [][\A s \in Sessions : FindsMember(s) =>
              /\ tsubs' = tsubs
              /\ joined' = joined
              /\ wlog' = wlog
              /\ spc'[s] = "Reading"
         ]_vars

\* C4 witness: session 3 handled a subscribe for "a" while the other session
\* of its peer was the member: it did not join, and the entry is still
\* session 1's.
C4_Witness ==
    /\ "a" \in asked[3]
    /\ "a" \notin joined[3]
    /\ spc[3] = "Reading"
    /\ Entry(1) \in Subs("a")
    /\ Entry(3) \notin Subs("a")

\* ------------------------------------------------------------------ C5
\* the confirmations session s started, in order
Confirms(s) == SelectSeq(wlog[s], LAMBDA x : x[2] = s)

\* the namespaces session s joined while they had a last announcement
JoinedWithRecord(s) == {n \in Namespaces : joinAnn[s][n] > 0}

\* session s adds its entry in this step
Adds(s) ==
    /\ spc[s] = "sub"
    /\ spc'[s] # "sub"
    /\ ~IsMember(tsubs[stopic[s]], RemotePeer(s))

\* C5: a session starts one confirmation for each namespace it joined while
\* the namespace had a last announcement, carrying that very record, and no
\* other confirmation; the confirmation starts in the step that adds the
\* entry and the session reads again only after it returned; joining a
\* namespace with no last announcement starts no write.
C5_ConfirmationIsLastAtJoin ==
    /\ [](\A s \in Sessions :
            /\ \A n \in JoinedWithRecord(s) : Count(s, Started(joinAnn[s][n], s)) = 1
            /\ Len(Confirms(s)) = Cardinality(JoinedWithRecord(s))
            /\ \A i \in DOMAIN Confirms(s) :
                   \E n \in JoinedWithRecord(s) :
                       /\ Confirms(s)[i][1] = joinAnn[s][n]
                       /\ cns[joinAnn[s][n]] = n
            /\ spc[s] = "write" =>
                   /\ slast[s] = Rec(joinAnn[s][sreq[s]])
                   /\ Confirms(s)[Len(Confirms(s))][1] = slast[s].id)
    /\ [][\A s \in Sessions : Adds(s) =>
              IF tlast[stopic[s]] = NoRec
              THEN wlog' = wlog /\ spc'[s] = "Reading"
              ELSE /\ wlog'[s] = Append(wlog[s], Started(tlast[stopic[s]].id, s))
                   /\ slast'[s] = tlast[stopic[s]]
                   /\ spc'[s] = "write"
         ]_vars

\* C5 witness: session 1 joined "a" after call 11 stored its record there and
\* "b", which has no last announcement; it is reading again, and the one
\* confirmation it started carries record 11.
C5_Witness ==
    /\ spc[1] = "Reading"
    /\ joinAnn[1]["a"] = 11
    /\ joinAnn[1]["b"] = 0
    /\ Confirms(1) = <<Started(11, 1)>>

\* ------------------------------------------------------------------ C6
\* the entries that were subscribed when call c stored and still are
Stayed(c) == snap[c] \cap tsubs[ctopic[c]]

\* C6: once a Register call has returned, every entry that was subscribed
\* when it stored and still is has been written the call's record by the
\* call's broadcast exactly once; no broadcast writes to a writer twice; and
\* when a call had returned before another on the same namespace began, its
\* record comes first on every writer both wrote to.
C6_EachCallOnceInOrder ==
    /\ \A c \in Calls : cpc[c] = "done" =>
           \A e \in Stayed(c) : Count(e.w, Started(c, c)) = 1
    /\ \A c \in Calls, w \in Sessions : Count(w, Started(c, c)) <= 1
    /\ \A c2 \in Calls : \A c1 \in pred[c2] :
           cns[c1] = cns[c2] =>
               \A w \in Sessions : \A i, j \in DOMAIN wlog[w] :
                   (wlog[w][i] = Started(c1, c1) /\ wlog[w][j] = Started(c2, c2))
                       => i < j

\* C6 witness: call 11 had returned when call 12 began, both have returned,
\* sessions 1 and 2 were subscribed before the first and still are, and each
\* writer was written record 11, then record 12, and nothing else.
C6_Witness ==
    /\ cpc[11] = "done"
    /\ cpc[12] = "done"
    /\ 11 \in pred[12]
    /\ {Entry(1), Entry(2)} \subseteq Stayed(11) \cap Stayed(12)
    /\ wlog[1] = <<Started(11, 11), Started(12, 12)>>
    /\ wlog[2] = <<Started(11, 11), Started(12, 12)>>

\* ------------------------------------------------------------------ C7
\* the Register calls that stored a record for namespace n
Stored(n) == {c \in Calls : cpc[c] # "idle" /\ cns[c] = n}

\* the call of a non-empty set that began last (calls begin in the order of
\* their ids)
Latest(cs) == CHOOSE c \in cs : \A d \in cs : d <= c

\* C7: the last announcement of a namespace is unset while no Register call
\* has stored a record for it and is the record of the call that stored last
\* otherwise; it changes only in the store step of a Register call, to that
\* call's record; and no step of a session changes it.
C7_LastAnnouncementNeverCleared ==
    /\ [](\A n \in Namespaces : topics[n] # NoTopic =>
              tlast[topics[n]] =
                  IF Stored(n) = {} THEN NoRec ELSE Rec(Latest(Stored(n))))
    /\ [][ /\ \A t \in Tids : tlast'[t] # tlast[t] =>
                 /\ tlast'[t] # NoRec
                 /\ \E c \in Calls :
                        /\ cpc[c] = "idle"
                        /\ cpc'[c] = "range"
                        /\ ctopic'[c] = t
                        /\ tlast'[t] = [id |-> c, pid |-> cpid'[c], ns |-> cns'[c]]
           /\ sessVars' # sessVars => tlast' = tlast
         ]_vars

\* C7 witness: call 12 stored after call 11 on "a"; both subscribers have
\* failed and terminated since, the subscriber set is empty, and record 12
\* is still the last announcement.
C7_Witness ==
    /\ cpc[12] = "done"
    /\ spc[1] = "Terminated"
    /\ spc[2] = "Terminated"
    /\ cleaned[1] = {"a"}
    /\ cleaned[2] = {"a"}
    /\ Subs("a") = {}
    /\ tlast[topics["a"]] = Rec(12)

\* ------------------------------------------------------------------ C8
\* C8: the topic handle a Register call or a session got for a namespace is
\* the one the registry holds for it; and a namespace that has a topic keeps
\* that very topic.
C8_OneTopicPerNamespace ==
    /\ [](/\ \A c \in Calls : cpc[c] # "idle" => ctopic[c] = topics[cns[c]]
          /\ \A s \in Sessions : stopic[s] # NoTopic => stopic[s] = topics[sreq[s]])
    /\ [][\A n \in Namespaces : topics[n] # NoTopic => topics'[n] = topics[n]]_vars

\* C8 witness: a Register call, a subscribing session and the cleanup of
\* another session all got the topic of "a", one after the other, and it is
\* one topic; "b" has a topic as well.
C8_Witness ==
    /\ cpc[11] = "range"
    /\ spc[2] = "write"
    /\ spc[3] = "c_del"
    /\ ctopic[11] = stopic[2]
    /\ stopic[3] = stopic[2]
    /\ sreq[2] = "a"
    /\ Entry(1) \in Subs("b")

\* ------------------------------------------------------------------ C9
\* an Unregister call for the identity of a last announcement is made in
\* this step (the first such call of the run)
Unregisters_now == unregd = 0 /\ unregd' # 0

\* C9: a step of Unregister changes no topic, no subscriber set, no last
\* announcement and no guard and starts no write; the record it was called
\* for stays the last announcement until a later Register replaces it, and a
\* session that adds its entry to that namespace afterwards starts the
\* confirmation with the last announcement.
C9_UnregisterIsNoOp ==
    /\ [](unregd # 0 =>
            LET r == IF unregd > 0 THEN unregd ELSE -unregd IN
            /\ tlast[ctopic[r]] # NoRec
            /\ tlast[ctopic[r]].id >= r
            /\ unregd < 0 => \E s \in Sessions : Started(r, s) \in LogSet(s))
    /\ [][ /\ Unregisters_now =>
                 UNCHANGED <<topics, tsubs, tlast, tmu, wlog, callVars, sessVars>>
           /\ \A s \in Sessions :
                 (Adds(s) /\ unregd > 0 /\ ctopic[unregd] = stopic[s]) =>
                     /\ wlog'[s] = Append(wlog[s], Started(tlast[stopic[s]].id, s))
                     /\ tlast[stopic[s]].id >= unregd
         ]_vars

\* C9 witness: Unregister was called for the identity and namespace of
\* record 11 while it was the last announcement; session 3 subscribed after
\* that and its confirmation carried record 11.
C9_Witness ==
    /\ unregd = -11
    /\ joinAnn[3]["a"] = 11
    /\ Confirms(3) = <<Started(11, 3)>>
    /\ spc[3] = "Reading"

\* ------------------------------------------------------------------ C10
\* C10 as claimed: when a call is blocked on a dead subscriber, a Register
\* call that began on the namespace after that delivers its record to every
\* other subscriber; so it is never blocked itself with an entry that was
\* subscribed when it stored, and still is, left unwritten.
C10_LaterRegisterDelivers ==
    \A c, d \in Calls :
        (c \in stuckAt[d] /\ Blocked(c) /\ Blocked(d) /\ ctopic[c] = ctopic[d]) =>
            \A e \in Stayed(d) :
                e.w # ctarget[c] => Started(d, d) \in LogSet(e.w)

\* C10: a call in a write that cannot return holds no topic guard; whoever
\* holds a topic guard is a session in its critical section, whose next step
\* needs nothing else; a call that began while another was blocked has stored
\* its record; and a session that found the guard free while a call was
\* blocked on the same topic adds its entry in its next step.
C10_BlockedCallHoldsNoGuard ==
    /\ \A c \in Calls : Blocked(c) => \A t \in Tids : tmu[t] # c
    /\ \A t \in Tids : tmu[t] # NoProc =>
           /\ tmu[t] \in Sessions
           /\ spc[tmu[t]] \in {"sub", "c_del"}
           /\ stopic[tmu[t]] = t
    /\ \A d \in Calls : stuckAt[d] # {} =>
           /\ tlast[ctopic[d]] # NoRec
           /\ tlast[ctopic[d]].id >= d
    /\ \A c \in Calls, s \in Sessions :
           (Blocked(c) /\ ~crashed /\ spc[s] = "sub" /\ stopic[s] = ctopic[c]) =>
               ENABLED (SubscribeAdd(s) \/ SubscribeDuplicate(s))

\* C10 witness: call 11 is blocked in its write to the dead stream of peer 2;
\* call 12 began after that and stored its record; session 1 subscribed after
\* that, got record 12 as its confirmation and is a member.
C10_Witness ==
    /\ Blocked(11)
    /\ ctarget[11] = 2
    /\ 11 \in stuckAt[12]
    /\ tlast[topics["a"]] = Rec(12)
    /\ joinAnn[1]["a"] = 12
    /\ Entry(1) \in Subs("a")
    /\ spc[1] = "Reading"

\* ------------------------------------------------------------------ C11
\* the topic guards process x holds
Held(x) == {t \in Tids : tmu[t] = x}

\* process x is in a stream write or a stream read
InStreamCall(x) ==
    IF x \in Calls THEN cpc[x] = "write"
    ELSE spc[x] \in {"Reading", "write"}

\* process x calls getOrCreateTopic in this step (the only place the registry
\* guard is taken): a call begins, or a session dispatches a subscribe or
\* the next namespace of its cleanup
TakesRegistryGuard(x) ==
    IF x \in Calls THEN cpc[x] = "idle" /\ cpc'[x] # "idle"
    ELSE \/ spc[x] = "Reading" /\ spc'[x] = "sub"
         \/ spc[x] = "cleanup" /\ spc'[x] = "c_del"

\* C11: a process in a stream write or a stream read holds no topic guard
\* (the registry guard is held only inside getOrCreateTopic, which neither
\* reads nor writes a stream); a process holds no topic guard in the step in
\* which it takes the registry guard; and a topic guard is held only by a
\* session inside its critical section on that topic, whose next step is
\* enabled while the process runs, so no state is a deadlock on guards.
C11_GuardsOnlyInCriticalSections ==
    /\ [](/\ \A x \in Calls \cup Sessions : InStreamCall(x) => Held(x) = {}
          /\ \A c \in Calls : Held(c) = {}
          /\ \A s \in Sessions : Held(s) # {} =>
                 /\ Held(s) = {stopic[s]}
                 /\ spc[s] \in {"sub", "c_del"}
                 /\ ~crashed => ENABLED (\/ SubscribeAdd(s)
                                         \/ SubscribeDuplicate(s)
                                         \/ CleanupDelete(s)))
    /\ [][\A x \in Calls \cup Sessions : TakesRegistryGuard(x) => Held(x) = {}]_vars

\* C11 witness: call 11 is in a write to session 2, session 1 is in the
\* write of its confirmation, and session 2 holds the guard of topic "a" for
\* a repeated subscribe request.
C11_Witness ==
    /\ cpc[11] = "write"
    /\ ctarget[11] = 2
    /\ spc[1] = "write"
    /\ spc[2] = "sub"
    /\ Held(2) = {topics["a"]}

\* ------------------------------------------------------------------ C12
\* the next step of Register call c
RegisterStep(c) ==
    \/ \E p \in Peers : RangeNext(c, p)
    \/ RegisterWriteEnd(c)
    \/ RegisterReturn(c)

\* C12: every Register call returns when it is scheduled and its writes
\* return: a call that has begun, has not returned and is not in a write
\* that cannot return always has its next step enabled, so no run leaves it
\* unreturned for ever.
C12_RegisterReturns ==
    \A c \in Calls :
        (cpc[c] \in {"range", "write"} /\ ~Blocked(c)) => ENABLED RegisterStep(c)

\* ------------------------------------------------------------------ C13
\* session s takes a step of its read failure and cleanup
CleansUp(s) == spc'[s] # spc[s] /\ spc'[s] \in {"cleanup", "c_del", "Terminated"}

\* C13: a step of a session's read failure and cleanup changes no topic of
\* the registry and no last announcement, starts no write, adds no entry,
\* removes no entry of another peer and no entry of a namespace the session
\* has not joined, and leaves the position and the joined-set of every other
\* session as they are.
C13_CleanupIsLocal ==
    [][\A s \in Sessions : CleansUp(s) =>
          /\ topics' = topics
          /\ tlast' = tlast
          /\ wlog' = wlog
          /\ \A t \in Tids :
                 /\ tsubs'[t] \subseteq tsubs[t]
                 /\ \A e \in tsubs[t] : e.peer # RemotePeer(s) => e \in tsubs'[t]
          /\ \A n \in Namespaces \ joined[s] : Subs(n)' = Subs(n)
          /\ \A x \in Sessions \ {s} : spc'[x] = spc[x] /\ joined'[x] = joined[x]
      ]_vars

\* C13 witness: session 1 failed, deleted its entry from "a" and is
\* terminated; session 2 of the other peer is still subscribed to "a" and
\* reading, and record 11 is still the last announcement of "a".
C13_Witness ==
    /\ spc[1] = "Terminated"
    /\ cleaned[1] = {"a"}
    /\ spc[2] = "Reading"
    /\ joined[2] = {"a"}
    /\ Entry(2) \in Subs("a")
    /\ tlast[topics["a"]] = Rec(11)

\* ------------------------------------------------------------------ C14
\* a message of a type other than discover/subscribe is read in this step
ReadsOther == ignored' # ignored

\* C14: the step that reads a message of another type creates no topic,
\* changes no subscriber set, no last announcement and no guard, starts no
\* write, and leaves every session where it was, Reading, with its
\* joined-set as it was.
C14_OtherMessageIgnored ==
    [][ReadsOther =>
          /\ UNCHANGED <<topics, tsubs, tlast, tmu, wlog, joined, spc, callVars>>
          /\ \E s \in Sessions : spc[s] = "Reading" /\ spc'[s] = "Reading"
      ]_vars

\* C14 witness: a message of another type was read; session 1, subscribed to
\* "a", is reading with its joined-set and its entry in place, and a
\* Register call has written to it and returned.
C14_Witness ==
    /\ ignored = 1
    /\ spc[1] = "Reading"
    /\ joined[1] = {"a"}
    /\ Entry(1) \in Subs("a")
    /\ cpc[11] = "done"
    /\ Started(11, 11) \in LogSet(1)

\* ------------------------------------------------------------------ C15
\* session s joined the namespace of call c before c stored its record, or
\* after that while the record was still the last announcement
JoinedFor(s, c) == cns[c] \in joined[s] /\ joinAnn[s][cns[c]] <= c

\* a write of call c's record was started on the writer of session s, by the
\* broadcast or as the confirmation
Attempted(c, s) == Started(c, c) \in LogSet(s) \/ Started(c, s) \in LogSet(s)

\* C15: once a Register call has returned, a write of its record
\* was started on the writer of every session that joined the namespace
\* before the store, or after it while the record was the last announcement,
\* and is not terminated.
C15_NoAnnouncementSkipped ==
    \A c \in Calls : cpc[c] = "done" =>
        \A s \in Sessions :
            (JoinedFor(s, c) /\ spc[s] # "Terminated") => Attempted(c, s)

\* ------------------------------------------------------------------ C16
\* C16: every entry of a namespace's subscriber set is keyed by the peer of
\* the session whose writer it holds, and that session has the namespace in
\* its joined-set and has not deleted from it; no subscriber set holds the
\* writer of a terminated session.
C16_EntryBoundedBySession ==
    /\ \A n \in Namespaces : \A e \in Subs(n) :
           /\ e.peer = RemotePeer(e.w)
           /\ n \in joined[e.w]
           /\ n \notin cleaned[e.w]
           /\ spc[e.w] # "Terminated"
    /\ \A s \in Sessions : spc[s] = "Terminated" =>
           \A t \in Tids : \A e \in tsubs[t] : e.w # s

\* C16 witness: session 3 joined "a", failed and is terminated; session 1 of
\* the same peer joined "a" after that and holds the peer's entry; session 2
\* of the other peer is subscribed as well.
C16_Witness ==
    /\ spc[3] = "Terminated"
    /\ cleaned[3] = {"a"}
    /\ "a" \in joined[1]
    /\ Subs("a") = {Entry(1), Entry(2)}

\* ------------------------------------------------------------------ C17
\* session s is live: it is in its loop, its read has not failed
Live(s) == spc[s] \in {"Reading", "write"}

\* C17: the peer of a live session that has handled a subscribe request for
\* a namespace is a member of that namespace's subscriber set.
C17_LiveSessionStaysSubscribed ==
    \A s \in Sessions : \A n \in asked[s] :
        Live(s) => IsMember(Subs(n), RemotePeer(s))

\* ------------------------------------------------------------------ C18
\* the processes with a WriteMsg in progress on writer w
Writing(w) ==
    {c \in Calls : cpc[c] = "write" /\ ctarget[c] = w}
        \cup (IF spc[w] = "write" THEN {w} ELSE {})

\* C18: on no writer are two writes in progress at once.
C18_OneWriteAtATime ==
    \A w \in Sessions : Cardinality(Writing(w)) <= 1

\* ------------------------------------------------------------------ C19
\* the records of namespace n written to writer w, in the order the writes
\* started
WrittenFor(w, n) == SelectSeq(wlog[w], LAMBDA x : cns[x[1]] = n)

\* no Register call on namespace n is in flight, and some have returned
Settled(n) ==
    /\ Stored(n) # {}
    /\ \A c \in Stored(n) : cpc[c] = "done"

\* session s was subscribed to the namespace of every call on n when the call
\* stored, still is, and every write on its stream succeeds
SubscribedThroughout(s, n) ==
    /\ \A c \in Stored(n) : Entry(s) \in Stayed(c)
    /\ wstate[s] = "ok"
    /\ spc[s] = "Reading"

\* C19: once every Register call on a namespace has returned, the last
\* record of the namespace written to a subscriber that stayed subscribed
\* throughout is the namespace's last announcement.
C19_SubscribersConverge ==
    \A n \in Namespaces : \A s \in Sessions :
        (Settled(n) /\ SubscribedThroughout(s, n)) =>
            /\ WrittenFor(s, n) # <<>>
            /\ WrittenFor(s, n)[Len(WrittenFor(s, n))][1] = tlast[topics[n]].id

====
